---- MODULE Spec2Model ----
(***************************************************************************)
(* Export orchestration engine of Confluence-Downloads-Flask (src/app.py): *)
(* page enumeration by cursor pagination, the per-page "trigger export ->  *)
(* wait -> download" protocol with its retry loop, and the aggregation of  *)
(* per-page outcomes of a space job.                                       *)
(*                                                                         *)
(* Strings are sequences of one-character strings (a few multi-character   *)
(* atoms stand for URL paths and rel attributes).  A Python value that may *)
(* be None is a sequence of length 0 (None) or 1 (the value).  A Python    *)
(* dict is a sequence of [k, v] pairs in insertion order.  One action is   *)
(* one blocking step of the single worker: an HTTP round trip or a sleep,  *)
(* together with the code that runs up to the next blocking step.          *)
(***************************************************************************)
EXTENDS Integers, Sequences, FiniteSets, TLC

\* ------------------------------------------------------------------ bounds
\* Longest chain of cursor pages the service serves for one listing.
MaxCursorPages == 3
\* Most results the service puts on one cursor page.
MaxResults == 1
\* longest title handed to convert_title_to_filename on its own
MaxTitleLen == 4
\* most pages below the homepage in a page tree
MaxDescendants == 4
\* most chunks in a download response body
MaxChunks == 2

\* ------------------------------------------------------- program constants
\* variant of MaxAttempts: one attempt fewer
MaxAttempts_short == 1 + 1
\* for attempt in range(3)
MaxAttempts == 3
\* wait_time += 10
BackoffIncrement == 10
\* time.sleep(10)
InterRetryWait == 10
\* wait_time = 15
DefaultWait == 15
\* convert_title_to_filename(title, max_length=100)
MaxFilenameLength == 100
\* params = {"limit": "250"}: the most results the service puts on a page
ListLimit == 250
\* get_confluence_pages_by_space_id_limit: limit <= 250 ... else 250
MaxLimit == 250
\* status_code == 200
HTTP_OK == 200

\* --------------------------------------------------------- Python values
None == << >>
Some(x) == << x >>
IsNone(o) == o = << >>
Val(o) == o[1]

\* dict: insertion-ordered sequence of [k, v]
DictHas(d, k) == \E i \in DOMAIN d : d[i].k = k
DictGet(d, k) == d[CHOOSE i \in DOMAIN d : d[i].k = k].v
DictSet(d, k, v) ==
    IF DictHas(d, k)
    THEN [i \in DOMAIN d |-> IF d[i].k = k THEN [k |-> k, v |-> v] ELSE d[i]]
    ELSE Append(d, [k |-> k, v |-> v])

Min(a, b) == IF a <= b THEN a ELSE b

\* --------------------------------------------------------- str operations
Whitespace == {" "}
WordChars == {"a", "b", "A", "c", "1", "2", "_",
              "o", "n", "f", "l", "u", "e", "P", "g", "I", "d", "p"}

RECURSIVE LStripChars(_, _)
LStripChars(s, cs) ==
    IF s = << >> THEN << >>
    ELSE IF Head(s) \in cs THEN LStripChars(Tail(s), cs) ELSE s

RECURSIVE RStripChars(_, _)
RStripChars(s, cs) ==
    IF s = << >> THEN << >>
    ELSE IF s[Len(s)] \in cs THEN RStripChars(SubSeq(s, 1, Len(s) - 1), cs) ELSE s

\* str.strip(chars)
StripChars(s, cs) == RStripChars(LStripChars(s, cs), cs)
\* str.strip()
Strip(s) == StripChars(s, Whitespace)
\* str.replace(a, b) for one-character a, b
Replace(s, a, b) == [i \in DOMAIN s |-> IF s[i] = a THEN b ELSE s[i]]

\* re.sub(r'\W+', '', s)
IsWord(c) == c \in WordChars
RemoveNonWord(s) == SelectSeq(s, IsWord)

\* str.split(sep) for a one-character sep: the pieces between separators
RECURSIVE SplitAcc(_, _, _)
SplitAcc(s, sep, cur) ==
    IF s = << >> THEN <<cur>>
    ELSE IF Head(s) = sep
         THEN <<cur>> \o SplitAcc(Tail(s), sep, << >>)
         ELSE SplitAcc(Tail(s), sep, Append(cur, Head(s)))
Split(s, sep) == SplitAcc(s, sep, << >>)

\* str.endswith(suffix)
EndsWith(s, suffix) ==
    /\ Len(s) >= Len(suffix)
    /\ SubSeq(s, Len(s) - Len(suffix) + 1, Len(s)) = suffix

\* variant: trailing underscores are removed before the cut, not after
convert_title_to_filename_strip_first(title, max_length) ==
    LET result == RStripChars(RemoveNonWord(Replace(Strip(title), " ", "_")), {"_"})
    IN  SubSeq(result, 1, Min(max_length, Len(result)))
\* variant: the result is not cut to max_length
convert_title_to_filename_uncut(title, max_length) ==
    RStripChars(RemoveNonWord(Replace(Strip(title), " ", "_")), {"_"})
\* convert_title_to_filename(title, max_length)
convert_title_to_filename(title, max_length) ==
    LET result == RemoveNonWord(Replace(Strip(title), " ", "_"))
    IN  RStripChars(SubSeq(result, 1, Min(max_length, Len(result))), {"_"})

\* ------------------------------------------------------------ the service
\* Page ids and titles the wiki service holds.
Ids == {"1", "2"}
Title1 == <<"A", " ", "b">>
Title2 == <<"c", "_">>
\* Entries a listing can contain: two pages sharing a title, and a second
\* title for page "1" (the service answering inconsistently).
PageRefs == {[id |-> "1", title |-> Title1],
             [id |-> "2", title |-> Title1],
             [id |-> "1", title |-> Title2]}

RECURSIVE SeqsUpTo(_, _)
SeqsUpTo(S, n) ==
    IF n = 0 THEN {<< >>}
    ELSE LET shorter == SeqsUpTo(S, n - 1)
         IN  shorter \cup {Append(q, x) : q \in {r \in shorter : Len(r) = n - 1}, x \in S}

ResultLists == SeqsUpTo(PageRefs, MaxResults)

\* Path atoms of the listing endpoint: the base URL is cursor page 1.
CursorNames == <<"c1", "c2", "c3", "c4", "c5", "c6", "c7">>
CursorName(k) == CursorNames[k]
BaseLink == <<"b", "a", "s", "e">>
RelNext == <<"rel=next">>
RelBase == <<"rel=base">>

\* One Link entry: <url>; rel="..."
LinkEntry(path, rel) == <<"<">> \o path \o <<">", ";", " ">> \o rel

\* Link headers the service can send with cursor page k (RFC 5988: a
\* comma-separated list of entries, in any order).  nxt is the cursor page
\* the service designates as the next one, None on the last cursor page.
LinkHeaders(k) ==
    LET last == {[link |-> None, nxt |-> None],
                 [link |-> Some(LinkEntry(BaseLink, RelBase)), nxt |-> None]}
        n == <<CursorName(k + 1)>>
        more == {[link |-> Some(LinkEntry(n, RelNext)), nxt |-> Some(k + 1)],
                 [link |-> Some(LinkEntry(n, RelNext) \o <<",", " ">>
                                \o LinkEntry(BaseLink, RelBase)),
                  nxt |-> Some(k + 1)],
                 [link |-> Some(LinkEntry(BaseLink, RelBase) \o <<",", " ">>
                                \o LinkEntry(n, RelNext)),
                  nxt |-> Some(k + 1)]}
    IN  IF k < MaxCursorPages THEN last \cup more ELSE last

\* A response: status, whether the body parses as JSON, the parsed body.
Response(status, json, body) ==
    [status_code |-> status, is_json |-> json, body |-> body]
\* The three ways an endpoint fails: non-200, not JSON, expected field absent.
FailedResponses ==
    {Response(404, TRUE, None), Response(HTTP_OK, FALSE, None),
     Response(HTTP_OK, TRUE, None)}

\* handle_json_errors(response): the parsed body, or an error record
handle_json_errors(response) ==
    IF response.status_code = HTTP_OK
    THEN IF response.is_json
         THEN [error |-> FALSE, data |-> response.body]
         ELSE [error |-> TRUE, data |-> None]
    ELSE [error |-> TRUE, data |-> None]

\* GET /space/{key}: body is the 'id' field (None when missing)
SpaceResponses == FailedResponses \cup {Response(HTTP_OK, TRUE, Some("123"))}

\* GET /spaces/{id}/pages as read for the homepage: body is 'results', a
\* list of [id, parentType]
HomepageResultLists ==
    {<< >>,
     <<[id |-> "1", parentType |-> None]>>,
     <<[id |-> "2", parentType |-> Some("page")]>>,
     <<[id |-> "2", parentType |-> Some("page")], [id |-> "1", parentType |-> None]>>}
HomepageResponses ==
    FailedResponses \cup {Response(HTTP_OK, TRUE, Some(rs)) : rs \in HomepageResultLists}

\* GET /pages/{id}: body is the 'title' field
TitleResponses == FailedResponses \cup {Response(HTTP_OK, TRUE, Some(Title1))}

\* GET /content/{id}?expand=body.export_view: body is body.export_view.value
EmptyParagraph == <<"<", "p", " ", "/", ">">>
Contents == {<< >>, EmptyParagraph, <<" ">> \o EmptyParagraph,
             <<"<", "p", ">", "a", "<", "/", "p", ">">>}
ContentResponses == FailedResponses \cup {Response(HTTP_OK, TRUE, Some(c)) : c \in Contents}

\* The export trigger's HTML: which of the two meta tags it carries.
TriggerResponses ==
    {[status_code |-> 403, taskId |-> None, cloudId |-> None],
     [status_code |-> HTTP_OK, taskId |-> Some("t"), cloudId |-> Some("c")],
     [status_code |-> HTTP_OK, taskId |-> None, cloudId |-> Some("c")],
     [status_code |-> HTTP_OK, taskId |-> Some("t"), cloudId |-> None]}

\* Download-link resolution: the body text, a presigned URL or anything else.
LinkBodies == {"presigned", "not_a_url"}

\* Status of the artifact fetch.
DownloadStatuses == {HTTP_OK, 404}

\* ----------------------------------------------------- Link header parsing
\* links = {rel.split(";")[1].strip(): rel.split(";")[0].strip("<>")
\*          for rel in link_header.split(",")}
LinkParts(link_header) == Split(link_header, ",")
\* rel.split(";")[1] raises IndexError when an entry has no ';'
LinkParseRaises(link_header) ==
    \E i \in DOMAIN LinkParts(link_header) :
        Len(Split(LinkParts(link_header)[i], ";")) < 2
RECURSIVE LinksFrom(_, _)
LinksFrom(parts, links) ==
    IF parts = << >> THEN links
    ELSE LET f == Split(Head(parts), ";")
         IN  LinksFrom(Tail(parts),
                       DictSet(links, Strip(f[2]), StripChars(f[1], {"<", ">"})))
ParseLinkHeader(link_header) == LinksFrom(LinkParts(link_header), << >>)

\* The url of the next request, None when the loop ends:
\*   link_header falsy -> None; next_url falsy -> None; else domain + next_url
NextUrl(link) ==
    IF IsNone(link) \/ Val(link) = << >> THEN None
    ELSE LET links == ParseLinkHeader(Val(link))
         IN  IF DictHas(links, RelNext) /\ DictGet(links, RelNext) # << >>
             THEN Some(DictGet(links, RelNext))
             ELSE None

\* The cursor page a request url addresses at the service, 0 when the url
\* is not one the service handed out.
CursorOf(u) ==
    IF \E k \in 1..MaxCursorPages : u = <<CursorName(k)>>
    THEN CHOOSE k \in 1..MaxCursorPages : u = <<CursorName(k)>>
    ELSE 0

\* variant: every listed entry is kept, a repeated id is not merged
RECURSIVE BuildPagesDict_NoMerge(_, _)
BuildPagesDict_NoMerge(pages, d) ==
    IF pages = << >> THEN d
    ELSE BuildPagesDict_NoMerge(Tail(pages),
                                Append(d, [k |-> Head(pages).id, v |-> Head(pages).title]))

\* pages_ids_dict[page['id']] = page['title'] for page in all_pages
RECURSIVE BuildPagesDict(_, _)
BuildPagesDict(pages, d) ==
    IF pages = << >> THEN d
    ELSE BuildPagesDict(Tail(pages), DictSet(d, Head(pages).id, Head(pages).title))

\* variant: nothing is recorded
add_value_to_dict_drop(dictionary, key, value) == dictionary
\* variant: the bucket is overwritten, not appended to
add_value_to_dict_overwrite(dictionary, key, value) ==
    DictSet(dictionary, key, <<value>>)
\* add_value_to_dict(dictionary, key, value)
add_value_to_dict(dictionary, key, value) ==
    IF ~DictHas(dictionary, key)
    THEN DictSet(dictionary, key, <<value>>)
    ELSE DictSet(dictionary, key, Append(DictGet(dictionary, key), value))

\* ------------------------------------------------------------- job inputs
\* wait_time as received: absent, zero, or a number of seconds
WaitInputs == {None, Some(0), Some(5)}
\* destination: a bucket name, or an output path (None: the default path)
Destinations ==
    {[gcs_bucket_name |-> Some("bucket"), output_path |-> None],
     [gcs_bucket_name |-> None, output_path |-> None],
     [gcs_bucket_name |-> None, output_path |-> Some(<<"o", "u", "t">>)]}
\* A space job (export_pdf_confluence_space_by_key) or a single-page job
\* (export_pdf_confluence_page_by_id called with an optional title).
Jobs ==
    {[mode |-> "space", page_id |-> None, page_title |-> None,
      wait_time |-> w, dest |-> d] : w \in WaitInputs, d \in Destinations}
    \cup
    {[mode |-> "page", page_id |-> Some(i), page_title |-> t,
      wait_time |-> w, dest |-> d] :
        i \in Ids, t \in {None, Some(Title1)}, w \in WaitInputs, d \in Destinations}

\* The JSON body posted to /export_pdf_space or /export_pdf_page: `fields`
\* are the job's fields as posted, `present` the required fields that carry
\* a truthy value ("key" is space_key, resp. page_id).
RequiredFields == {"domain", "email", "api_token", "key"}
PresentSets ==
    {RequiredFields, {}} \cup {RequiredFields \ {f} : f \in RequiredFields}
Requests == [endpoint : {"space", "page"}, present : PresentSets, fields : Jobs]
NoJob == [mode |-> "none", page_id |-> None, page_title |-> None,
          wait_time |-> None, dest |-> [gcs_bucket_name |-> None,
                                        output_path |-> None]]

\* Python truthiness: `not x` for an optional string, an optional number
Falsy(o) == IsNone(o) \/ Val(o) = << >>
FalsyNum(o) == IsNone(o) \/ Val(o) = 0
FalsyId(o) == IsNone(o) \/ Val(o) = ""

EMPTY_PAGE == "EMPTY_PAGE"
DOWNLOAD_SUCCESFUL == "DOWNLOAD_SUCCESFUL"
DOWNLOAD_FAILED == "DOWNLOAD_FAILED"
Labels == {EMPTY_PAGE, DOWNLOAD_SUCCESFUL, DOWNLOAD_FAILED}

\* ------------------------------------------------------- per-page helpers
SuffixChars ==
    <<"_", "c", "o", "n", "f", "l", "u", "e", "n", "c", "e",
      "P", "a", "g", "e", "I", "d", "=">>
FilePageTitle_title_only(title, id) ==
    convert_title_to_filename(title, MaxFilenameLength)
\* f"{convert_title_to_filename(page_title)}_confluencePageId={page_id}"
FilePageTitle(title, id) ==
    convert_title_to_filename(title, MaxFilenameLength) \o SuffixChars \o <<id>>

\* for page in pages: if page['parentType'] is None: return page['id']
RECURSIVE FirstHomepage(_)
FirstHomepage(pages) ==
    IF pages = << >> THEN None
    ELSE IF IsNone(Head(pages).parentType) THEN Some(Head(pages).id)
         ELSE FirstHomepage(Tail(pages))

\* get_confluence_space_id_by_key: the id, or None
get_confluence_space_id_by_key(response) ==
    LET data == handle_json_errors(response)
    IN  IF data.error THEN None ELSE data.data

\* variant: the first listed page is taken, whatever its parent type
get_confluence_homepage_id_by_space_id_first(response) ==
    LET data == handle_json_errors(response)
    IN  IF data.error THEN None
        ELSE IF IsNone(data.data) THEN None
        ELSE IF Val(data.data) = << >> THEN None
        ELSE Some(Val(data.data)[1].id)

\* get_confluence_homepage_id_by_space_id: the homepage id, or None
get_confluence_homepage_id_by_space_id(response) ==
    LET data == handle_json_errors(response)
    IN  IF data.error THEN None
        ELSE IF IsNone(data.data) THEN None
        ELSE FirstHomepage(Val(data.data))

\* get_confluence_page_title_by_id: the title, or None
get_confluence_page_title_by_id(response) ==
    LET data == handle_json_errors(response)
    IN  IF data.error THEN None ELSE data.data

\* get_confluence_page_content_by_id: the export-view value, or None
get_confluence_page_content_by_id(response) ==
    LET data == handle_json_errors(response)
    IN  IF data.error THEN None ELSE data.data

\* variant: only the empty string counts as empty
is_empty_confluence_page_blank_only(page_content) == page_content = << >>

\* page_content.strip() in ["<p />", ""]
is_empty_confluence_page(page_content) ==
    Strip(page_content) \in {EmptyParagraph, << >>}

\* extract_task_and_cloud_id_from_html: both ids, or None
extract_task_and_cloud_id_from_html(html) ==
    IF ~IsNone(html.taskId) /\ ~IsNone(html.cloudId)
    THEN Some([taskId |-> Val(html.taskId), cloudId |-> Val(html.cloudId)])
    ELSE None

\* if not wait_time or wait_time == 0: wait_time = 15
CoerceWait(w) == IF FalsyNum(w) THEN DefaultWait ELSE Val(w)
\* variant: the wait is not escalated
EscalateWait_flat(w) == w
\* wait_time += 10
EscalateWait(w) == w + BackoffIncrement

\* What get_pdf_export_confluence_url returned: a str (the link body), the
\* error dict of a non-200 trigger, or None (no return statement reached).
UrlStr(text, n) == [kind |-> "str", text |-> text, attempt |-> n]
UrlDict(n) == [kind |-> "dict", text |-> "", attempt |-> n]
UrlNone(n) == [kind |-> "None", text |-> "", attempt |-> n]
NoUrl == [kind |-> "unset", text |-> "", attempt |-> 0]
\* requests.get(url) sends a request only for a str that is a URL; for
\* anything else it raises (MissingSchema / InvalidSchema)
IsUrl(u) == u.kind = "str" /\ u.text = "presigned"

\* output_path default, trailing '/', then directory + '/' + filename + '.pdf'
PdfSuffix == <<".", "p", "d", "f">>
FsPath(output_path, name) ==
    LET base == IF Falsy(output_path)
                THEN <<"confluence_downloads">> ELSE Val(output_path)
        file == IF EndsWith(name, PdfSuffix) THEN name ELSE name \o PdfSuffix
    IN  RStripChars(base, {"/"}) \o <<"/">> \o file
\* object key: the file title sanitized once more, then '.pdf'
GcsKey(name) ==
    LET f == convert_title_to_filename(name, MaxFilenameLength)
    IN  IF EndsWith(f, PdfSuffix) THEN f ELSE f \o PdfSuffix

NoCall == [fn |-> "none"]
ZeroReq == [title |-> 0, content |-> 0, trigger |-> 0, link |-> 0, download |-> 0]

\* ------------------------------------------------------------------ state
VARIABLES
    job,              \* the job description, fixed for the run
    pc,               \* the worker's position
    fault,            \* the unhandled exception that ended the run, "" if none
    result,           \* what the entry point returned: "pending", "None",
                      \*   "pages_status" or "label"
    space_id, homepage_id,
    url,              \* get_confluence_pages_by_space_id: url of the next request
    all_pages,        \* get_confluence_pages_by_space_id: all_pages
    pages_ids_dict, pages_status,
    idx,              \* position of the loop over pages_ids_dict.items()
    page_id, page_title, file_page_title,
    content,          \* what the content read returned
    wait_time, attempt,
    dl_url,           \* url, as returned by get_pdf_export_confluence_url
    status_code, page_status,
    written,          \* destinations written so far (paths, object keys)
    \* history, for stating properties only
    spaceResp, homeResp,   \* the responses to the two resolution requests
    nListReq,         \* listing requests the service answered
    served,           \* result lists of the cursor pages served, in order
    svcNext,          \* the cursor page the service last designated as next
    svcError,         \* the service answered a listing request with a failure
    req,              \* requests made for the current page, per endpoint
    sleeps,           \* sleeps made for the current page, in order
    statuses,         \* download statuses of the current page, in order
    \* the Flask handlers
    request,          \* the JSON body posted to an endpoint, None if none
    http_status,      \* the status the handler answered with, 0 before
    \* the helper functions, called on their own
    call,             \* the function called and its arguments
    ret               \* what it returned, None before

enumVars == <<space_id, homepage_id, url, all_pages, spaceResp, homeResp,
              nListReq, served, svcNext, svcError>>
loopVars == <<pages_ids_dict, pages_status, idx>>
pageVars == <<page_id, page_title, file_page_title, content, wait_time, attempt,
              dl_url, status_code, page_status, req, sleeps, statuses>>
auxVars == <<request, http_status, call, ret>>
vars == <<job, pc, fault, result, enumVars, loopVars, pageVars, written,
          auxVars>>

\* Nothing has run yet: every local and every history variable is fresh.
Fresh ==
    /\ fault = ""
    /\ result = "pending"
    /\ space_id = None /\ homepage_id = None
    /\ url = None /\ all_pages = << >>
    /\ pages_ids_dict = << >> /\ pages_status = << >> /\ idx = 0
    /\ page_id = "" /\ page_title = None /\ file_page_title = None
    /\ content = None
    /\ wait_time = None /\ attempt = 0
    /\ dl_url = NoUrl /\ status_code = None /\ page_status = None
    /\ written = << >>
    /\ spaceResp = None /\ homeResp = None
    /\ nListReq = 0 /\ served = << >> /\ svcNext = None /\ svcError = FALSE
    /\ req = ZeroReq /\ sleeps = << >> /\ statuses = << >>

\* The engine's entry points called directly, as the __main__ block does.
Init ==
    /\ job \in Jobs
    /\ pc = "start"
    /\ Fresh
    /\ request = None /\ http_status = 0
    /\ call = NoCall /\ ret = None

\* An exception nothing catches: the run ends there.
Raise(what) == pc' = "fault" /\ fault' = what

\* variant: the wait escalated on one page is carried into the next page
EnterPage_shared_wait(id, title) ==
    /\ page_id' = id
    /\ page_title' = title
    /\ content' = None
    /\ wait_time' = IF IsNone(wait_time) THEN job.wait_time ELSE wait_time
    /\ attempt' = 0
    /\ dl_url' = NoUrl
    /\ status_code' = None
    /\ page_status' = None
    /\ req' = ZeroReq /\ sleeps' = << >> /\ statuses' = << >>
    /\ IF Falsy(title)
       THEN file_page_title' = None /\ pc' = "title"
       ELSE file_page_title' = Some(FilePageTitle(Val(title), id)) /\ pc' = "content"

\* export_pdf_confluence_page_by_id is entered: arguments bound, locals
\* fresh; a truthy title is formatted at once (line 471), a falsy one is
\* looked up first (line 468).
EnterPage(id, title) ==
    /\ page_id' = id
    /\ page_title' = title
    /\ content' = None
    /\ wait_time' = job.wait_time
    /\ attempt' = 0
    /\ dl_url' = NoUrl
    /\ status_code' = None
    /\ page_status' = None
    /\ req' = ZeroReq /\ sleeps' = << >> /\ statuses' = << >>
    /\ IF Falsy(title)
       THEN file_page_title' = None /\ pc' = "title"
       ELSE file_page_title' = Some(FilePageTitle(Val(title), id)) /\ pc' = "content"

\* return <label> from export_pdf_confluence_page_by_id
ReturnLabel(label) == page_status' = Some(label) /\ pc' = "returned"

\* ---------------------------------------------------------------- actions
\* export_pdf_confluence_space_by_key, lines 537-541: resolve the space id
StartSpace ==
    /\ pc = "start" /\ job.mode = "space"
    /\ \E r \in SpaceResponses :
        /\ spaceResp' = Some(r)
        /\ space_id' = get_confluence_space_id_by_key(r)
        /\ IF FalsyId(space_id')
           THEN pc' = "done" /\ result' = "None"
           ELSE pc' = "homepage" /\ result' = result
    /\ UNCHANGED <<auxVars, job, fault, homepage_id, url, all_pages, homeResp, nListReq,
                   served, svcNext, svcError, loopVars, pageVars, written>>

\* lines 543-551: resolve the homepage id, then start the listing
GetHomepage ==
    /\ pc = "homepage"
    /\ \E r \in HomepageResponses :
        /\ homeResp' = Some(r)
        /\ homepage_id' = get_confluence_homepage_id_by_space_id(r)
        /\ IF FalsyId(homepage_id')
           THEN pc' = "done" /\ result' = "None" /\ url' = url
           ELSE pc' = "listing" /\ result' = result /\ url' = Some(<<CursorName(1)>>)
    /\ UNCHANGED <<auxVars, job, fault, space_id, all_pages, spaceResp, nListReq,
                   served, svcNext, svcError, loopVars, pageVars, written>>

\* What the service can answer to a listing request for cursor page k.
ListingResponses(k) ==
    {[resp |-> f, link |-> None, nxt |-> None] : f \in FailedResponses}
    \cup
    {[resp |-> Response(HTTP_OK, TRUE, Some(rs)), link |-> h.link, nxt |-> h.nxt] :
        rs \in ResultLists, h \in LinkHeaders(k)}

\* get_confluence_pages_by_space_id: one iteration of `while url`; when the
\* function returns, all_pages is the caller's all_pages (line 551)
ListingFetch ==
    /\ pc = "listing"
    /\ LET k == CursorOf(Val(url))
       IN  IF k = 0
           THEN \* the url names nothing the service serves: requests raises
                /\ Raise("requests.get(listing url)")
                /\ UNCHANGED <<url, all_pages, nListReq, served, svcNext, svcError>>
           ELSE \E r \in ListingResponses(k) :
                LET data == handle_json_errors(r.resp)
                IN  /\ nListReq' = nListReq + 1
                    /\ IF data.error \/ IsNone(data.data)
                       THEN \* return []
                            /\ svcError' = TRUE
                            /\ all_pages' = << >>
                            /\ pc' = "listed" /\ fault' = fault
                            /\ UNCHANGED <<url, served, svcNext>>
                       ELSE /\ svcError' = svcError
                            /\ served' = Append(served, Val(data.data))
                            /\ svcNext' = r.nxt
                            /\ all_pages' = all_pages \o Val(data.data)
                            /\ IF ~Falsy(r.link) /\ LinkParseRaises(Val(r.link))
                               THEN Raise("IndexError") /\ url' = url
                               ELSE /\ url' = NextUrl(r.link)
                                    /\ fault' = fault
                                    /\ pc' = IF IsNone(url') THEN "listed" ELSE "listing"
    /\ UNCHANGED <<auxVars, job, result, space_id, homepage_id, spaceResp, homeResp,
                   loopVars, pageVars, written>>

\* lines 553-563: build pages_ids_dict from all_pages and enter the loop over
\* its items (or return the empty pages_status).  all_pages is not read
\* again; it and the record of the cursor pages served are dropped here.
BuildPages ==
    /\ pc = "listed"
    /\ LET d == BuildPagesDict(all_pages, << >>)
       IN  /\ pages_ids_dict' = d
           /\ pages_status' = << >>
           /\ IF d = << >>
              THEN /\ idx' = 0 /\ pc' = "done" /\ result' = "pages_status"
                   /\ UNCHANGED pageVars
              ELSE /\ idx' = 1 /\ result' = result
                   /\ EnterPage(d[1].k, Some(d[1].v))
    /\ all_pages' = << >> /\ served' = << >>
    /\ UNCHANGED <<auxVars, job, fault, space_id, homepage_id, url, spaceResp, homeResp,
                   nListReq, svcNext, svcError, written>>

\* a single-page job: export_pdf_confluence_page_by_id is called directly
StartPage ==
    /\ pc = "start" /\ job.mode = "page"
    /\ EnterPage(Val(job.page_id), job.page_title)
    /\ UNCHANGED <<auxVars, job, fault, result, enumVars, loopVars, written>>

\* lines 467-471: look the title up, then format the file title
TitleLookup ==
    /\ pc = "title"
    /\ \E r \in TitleResponses :
        LET t == get_confluence_page_title_by_id(r)
        IN  /\ req' = [req EXCEPT !.title = @ + 1]
            /\ page_title' = t
            /\ IF IsNone(t)
               THEN \* convert_title_to_filename(None): None has no strip()
                    /\ Raise("AttributeError title")
                    /\ file_page_title' = file_page_title
               ELSE /\ file_page_title' = Some(FilePageTitle(Val(t), page_id))
                    /\ pc' = "content" /\ fault' = fault
    /\ UNCHANGED <<auxVars, job, result, enumVars, loopVars, written, page_id, content,
                   wait_time, attempt, dl_url, status_code, page_status, sleeps,
                   statuses>>

\* lines 473-480: read the content, return EMPTY_PAGE or set up the retries
ContentRead ==
    /\ pc = "content"
    /\ \E r \in ContentResponses :
        LET c == get_confluence_page_content_by_id(r)
        IN  /\ req' = [req EXCEPT !.content = @ + 1]
            /\ content' = c
            /\ IF IsNone(c)
               THEN \* is_empty_confluence_page: None has no strip()
                    /\ Raise("AttributeError content")
                    /\ UNCHANGED <<wait_time, page_status>>
               ELSE IF is_empty_confluence_page(Val(c))
               THEN /\ ReturnLabel(EMPTY_PAGE)
                    /\ fault' = fault /\ wait_time' = wait_time
               ELSE /\ wait_time' = Some(CoerceWait(wait_time))
                    /\ pc' = "trigger"
                    /\ fault' = fault /\ page_status' = page_status
    /\ UNCHANGED <<auxVars, job, result, enumVars, loopVars, written, page_id, page_title,
                   file_page_title, attempt, dl_url, status_code, sleeps, statuses>>

\* get_pdf_export_confluence_url, lines 204-214: the export trigger
TriggerExport ==
    /\ pc = "trigger"
    /\ \E r \in TriggerResponses :
        /\ req' = [req EXCEPT !.trigger = @ + 1]
        /\ IF r.status_code # HTTP_OK
           THEN dl_url' = UrlDict(attempt + 1) /\ pc' = "pre_sleep"
           ELSE IF IsNone(extract_task_and_cloud_id_from_html(r))
           THEN dl_url' = UrlNone(attempt + 1) /\ pc' = "pre_sleep"
           ELSE dl_url' = dl_url /\ pc' = "link"
    /\ UNCHANGED <<auxVars, job, fault, result, enumVars, loopVars, written, page_id,
                   page_title, file_page_title, content, wait_time, attempt,
                   status_code, page_status, sleeps, statuses>>

\* get_pdf_export_confluence_url, lines 215-218: the download-link request
LinkResolve ==
    /\ pc = "link"
    /\ \E b \in LinkBodies :
        /\ req' = [req EXCEPT !.link = @ + 1]
        /\ dl_url' = UrlStr(b, attempt + 1)
        /\ pc' = "pre_sleep"
    /\ UNCHANGED <<auxVars, job, fault, result, enumVars, loopVars, written, page_id,
                   page_title, file_page_title, content, wait_time, attempt,
                   status_code, page_status, sleeps, statuses>>

\* line 488: time.sleep(wait_time)
PreDownloadSleep ==
    /\ pc = "pre_sleep"
    /\ sleeps' = Append(sleeps, [kind |-> "pre", secs |-> Val(wait_time),
                                 attempt |-> attempt + 1])
    /\ pc' = "download"
    /\ UNCHANGED <<auxVars, job, fault, result, enumVars, loopVars, written, page_id,
                   page_title, file_page_title, content, wait_time, attempt,
                   dl_url, status_code, page_status, req, statuses>>

\* variant: the filesystem sink opens its file before it looks at the status
Download_open_first ==
    /\ pc = "download"
    /\ IF ~IsUrl(dl_url)
       THEN \* requests.get(url) raises on a dict, None, or a non-URL text
            /\ Raise("requests.get(url)")
            /\ UNCHANGED <<written, wait_time, status_code, page_status, req,
                           statuses>>
       ELSE \E s \in DownloadStatuses :
            /\ req' = [req EXCEPT !.download = @ + 1]
            /\ statuses' = Append(statuses, s)
            /\ IF s = HTTP_OK /\ ~FalsyId(job.dest.gcs_bucket_name)
               THEN \* storage.Client(): the name `storage` is never imported
                    /\ Raise("NameError storage")
                    /\ UNCHANGED <<written, wait_time, status_code, page_status>>
               ELSE /\ fault' = fault
                    /\ status_code' = Some(s)
                    /\ written' = IF FalsyId(job.dest.gcs_bucket_name)
                                  THEN Append(written,
                                         FsPath(job.dest.output_path, Val(file_page_title)))
                                  ELSE written
                    /\ IF s = HTTP_OK
                       THEN ReturnLabel(DOWNLOAD_SUCCESFUL) /\ wait_time' = wait_time
                       ELSE /\ wait_time' = Some(EscalateWait(Val(wait_time)))
                            /\ pc' = "retry_sleep"
                            /\ page_status' = page_status
    /\ UNCHANGED <<auxVars, job, result, enumVars, loopVars, page_id, page_title,
                   file_page_title, content, attempt, dl_url, sleeps>>

\* lines 493-511: the download into the sink and its classification
Download ==
    /\ pc = "download"
    /\ IF ~IsUrl(dl_url)
       THEN \* requests.get(url) raises on a dict, None, or a non-URL text
            /\ Raise("requests.get(url)")
            /\ UNCHANGED <<written, wait_time, status_code, page_status, req,
                           statuses>>
       ELSE \E s \in DownloadStatuses :
            /\ req' = [req EXCEPT !.download = @ + 1]
            /\ statuses' = Append(statuses, s)
            /\ IF s = HTTP_OK /\ ~FalsyId(job.dest.gcs_bucket_name)
               THEN \* storage.Client(): the name `storage` is never imported
                    /\ Raise("NameError storage")
                    /\ UNCHANGED <<written, wait_time, status_code, page_status>>
               ELSE /\ fault' = fault
                    /\ status_code' = Some(s)
                    /\ written' = IF s = HTTP_OK
                                  THEN Append(written,
                                         FsPath(job.dest.output_path, Val(file_page_title)))
                                  ELSE written
                    /\ IF s = HTTP_OK
                       THEN ReturnLabel(DOWNLOAD_SUCCESFUL) /\ wait_time' = wait_time
                       ELSE /\ wait_time' = Some(EscalateWait(Val(wait_time)))
                            /\ pc' = "retry_sleep"
                            /\ page_status' = page_status
    /\ UNCHANGED <<auxVars, job, result, enumVars, loopVars, page_id, page_title,
                   file_page_title, content, attempt, dl_url, sleeps>>

\* variant: the next attempt waits and downloads again without a new trigger
RetrySleep_reuse ==
    /\ pc = "retry_sleep"
    /\ sleeps' = Append(sleeps, [kind |-> "retry", secs |-> InterRetryWait,
                                 attempt |-> attempt + 1])
    /\ attempt' = attempt + 1
    /\ IF attempt + 1 < MaxAttempts
       THEN pc' = "pre_sleep" /\ page_status' = page_status
       ELSE ReturnLabel(DOWNLOAD_FAILED)
    /\ UNCHANGED <<auxVars, job, fault, result, enumVars, loopVars, written, page_id,
                   page_title, file_page_title, content, wait_time, dl_url,
                   status_code, req, statuses>>

\* lines 512-515: time.sleep(10), then the next attempt or DOWNLOAD_FAILED
RetrySleep ==
    /\ pc = "retry_sleep"
    /\ sleeps' = Append(sleeps, [kind |-> "retry", secs |-> InterRetryWait,
                                 attempt |-> attempt + 1])
    /\ attempt' = attempt + 1
    /\ IF attempt + 1 < MaxAttempts
       THEN pc' = "trigger" /\ page_status' = page_status
       ELSE ReturnLabel(DOWNLOAD_FAILED)
    /\ UNCHANGED <<auxVars, job, fault, result, enumVars, loopVars, written, page_id,
                   page_title, file_page_title, content, wait_time, dl_url,
                   status_code, req, statuses>>

\* line 577 and the next iteration of the loop (or lines 579-584)
RecordOutcome ==
    /\ pc = "returned" /\ job.mode = "space"
    /\ pages_status' = add_value_to_dict(pages_status, Val(page_status), page_id)
    /\ pages_ids_dict' = pages_ids_dict
    /\ IF idx < Len(pages_ids_dict)
       THEN /\ idx' = idx + 1 /\ result' = result
            /\ EnterPage(pages_ids_dict[idx + 1].k, Some(pages_ids_dict[idx + 1].v))
       ELSE /\ idx' = idx /\ pc' = "done" /\ result' = "pages_status"
            /\ UNCHANGED pageVars
    /\ UNCHANGED <<auxVars, job, fault, enumVars, written>>

\* a single-page job hands the label back to its caller
ReturnPage ==
    /\ pc = "returned" /\ job.mode = "page"
    /\ pc' = "done" /\ result' = "label"
    /\ UNCHANGED <<auxVars, job, fault, enumVars, loopVars, pageVars, written>>

Next ==
    \/ StartSpace \/ GetHomepage \/ ListingFetch \/ BuildPages
    \/ StartPage \/ TitleLookup \/ ContentRead
    \/ TriggerExport \/ LinkResolve \/ PreDownloadSleep \/ Download \/ RetrySleep
    \/ RecordOutcome \/ ReturnPage

Spec == Init /\ [][Next]_vars

\* The sole worker keeps running: every request is answered and every
\* sleep ends, so a step that can be taken is taken.
SpecLive == Spec /\ WF_vars(Next)

\* ------------------------------------------------------- the Flask handlers
\* all([domain, email, api_token, space_key]) / all([..., page_id])
AllRequired(r) == r.present = RequiredFields

InitHttp ==
    /\ request \in {Some(r) : r \in {q \in Requests : q.fields.mode = q.endpoint}}
    /\ pc = "request"
    /\ job = NoJob
    /\ Fresh
    /\ http_status = 0
    /\ call = NoCall /\ ret = None

\* POST /export_pdf_space: wait_time is taken as posted; a missing required
\* field is answered 400, otherwise the space export runs.
export_pdf_space ==
    /\ pc = "request" /\ Val(request).endpoint = "space"
    /\ IF ~AllRequired(Val(request))
          THEN /\ pc' = "rejected" /\ http_status' = 400
               /\ UNCHANGED job
          ELSE /\ pc' = "start" /\ job' = Val(request).fields
               /\ UNCHANGED http_status
    /\ UNCHANGED <<fault, result, enumVars, loopVars, pageVars, written,
                   request, call, ret>>

\* POST /export_pdf_page: int(data.get('wait_time')) is evaluated first
\* (line 635) and raises TypeError when wait_time is absent; only then are
\* the required fields checked (line 637).
export_pdf_page ==
    /\ pc = "request" /\ Val(request).endpoint = "page"
    /\ IF IsNone(Val(request).fields.wait_time)
          THEN /\ Raise("TypeError int(None)")
               /\ UNCHANGED <<job, http_status>>
          ELSE /\ UNCHANGED fault
               /\ IF ~AllRequired(Val(request))
                     THEN /\ pc' = "rejected" /\ http_status' = 400
                          /\ UNCHANGED job
                     ELSE /\ pc' = "start" /\ job' = Val(request).fields
                          /\ UNCHANGED http_status
    /\ UNCHANGED <<result, enumVars, loopVars, pageVars, written,
                   request, call, ret>>

\* return jsonify({"results": pages_status}) (lines 616, 650)
Respond ==
    /\ pc = "done" /\ ~IsNone(request)
    /\ pc' = "responded" /\ http_status' = HTTP_OK
    /\ UNCHANGED <<job, fault, result, enumVars, loopVars, pageVars, written,
                   request, call, ret>>

NextHttp == export_pdf_space \/ export_pdf_page \/ Respond \/ Next

SpecHttp == InitHttp /\ [][NextHttp]_vars

\* -------------------------------------------- the helpers, called on their own
\* Titles over an alphabet with a letter, a digit, the underscore, the
\* space and a punctuation mark; every max_length up to just past the
\* longest title, and the default.
TitleAlphabet == {"a", "1", "_", " ", "!"}
TitleInputs == SeqsUpTo(TitleAlphabet, MaxTitleLen)
MaxLengthInputs == (0..(MaxTitleLen + 1)) \cup {MaxFilenameLength}
SanitizeCalls ==
    [fn : {"convert_title_to_filename"}, title : TitleInputs,
     max_length : MaxLengthInputs]

\* Two pages with different ids sent to the bucket sink: short titles, and
\* titles of one repeated letter around the longest file name.
LongTitle(n) == [i \in 1..n |-> "a"]
KeyTitles ==
    {Title1, Title2,
     LongTitle(MaxFilenameLength - Len(SuffixChars)),
     LongTitle(MaxFilenameLength - Len(SuffixChars) + 1),
     LongTitle(MaxFilenameLength), LongTitle(MaxFilenameLength + 1)}
ObjectKeyCalls ==
    {[fn |-> "object_key", titles |-> <<t1, t2>>, ids |-> i] :
        t1 \in KeyTitles, t2 \in KeyTitles,
        i \in {<<"1", "2">>, <<"2", "1">>}}

\* A space as a page tree: page 0 is the homepage and parent[i] < i is the
\* parent of page i.  The service puts page_size results on a cursor page
\* and writes its Link headers in one style; `fail`, when set, is the one
\* children request it answers with a failure: request number `at` for the
\* children of `page`.
RECURSIVE ParentMaps(_)
ParentMaps(n) ==
    IF n = 0 THEN {<< >>}
    ELSE {Append(m, q) : m \in ParentMaps(n - 1), q \in 0..(n - 1)}
Trees == UNION {ParentMaps(n) : n \in 0..MaxDescendants}
PageSizes == {1, 2, ListLimit}
LinkStyles == {"next", "next,base", "base,next"}
ChildrenFailures(parent) ==
    {None} \cup {Some([page |-> q, at |-> k, resp |-> r]) :
                    q \in 0..Len(parent), k \in 1..2, r \in FailedResponses}
Services ==
    {[parent |-> m, page_size |-> z, style |-> y, fail |-> f, back |-> None] :
        m \in Trees, z \in PageSizes, y \in LinkStyles,
        f \in UNION {ChildrenFailures(t) : t \in Trees}}
\* A malformed children relation: the service also lists page `lists` among
\* the children of page `page`; when `lists` is the page itself or one of
\* its ancestors, a page is its own descendant.
BackEdges(parent) ==
    {Some([page |-> x, lists |-> y]) : x \in 0..Len(parent), y \in 0..Len(parent)}
MalformedServices ==
    {[parent |-> m, page_size |-> ListLimit, style |-> "next", fail |-> None,
      back |-> b] :
        m \in Trees, b \in UNION {BackEdges(t) : t \in Trees}}
EnumerateCalls ==
    {[fn |-> "enumerate", svc |-> v] :
        v \in {w \in Services : w.fail \in ChildrenFailures(w.parent)}
             \cup {w \in MalformedServices : w.back \in BackEdges(w.parent)}}
\* Calls nested deeper than any descent over an acyclic relation of these
\* pages goes; the code sets no limit of its own.
DepthCap == MaxDescendants + 2

TitleOf(i) == IF i % 2 = 0 THEN Title1 ELSE Title2
PageRef(i) == [id |-> i, title |-> TitleOf(i)]
\* what GET /pages/{page_id}/children and GET /spaces/{id}/pages list
ChildrenOf(svc, parent_id) ==
    LET IsChild(i) == svc.parent[i] = parent_id
    IN  SelectSeq([i \in 1..Len(svc.parent) |-> i], IsChild)
        \o (IF ~IsNone(svc.back) /\ Val(svc.back).page = parent_id
            THEN <<Val(svc.back).lists>> ELSE << >>)
ChildRefs(svc, parent_id) ==
    LET c == ChildrenOf(svc, parent_id) IN [j \in DOMAIN c |-> PageRef(c[j])]
SpaceRefs(svc) == [j \in 1..(Len(svc.parent) + 1) |-> PageRef(j - 1)]

\* The service's answer to request number k of a listing of `refs`.
NumCursorPages(refs, z) == IF refs = << >> THEN 1 ELSE (Len(refs) + z - 1) \div z
CursorPage(refs, z, k) == SubSeq(refs, (k - 1) * z + 1, Min(k * z, Len(refs)))
LinkHeaderFor(style, k, n) ==
    LET nxt == LinkEntry(<<CursorName(k + 1)>>, RelNext)
        base == LinkEntry(BaseLink, RelBase)
    IN  IF k < n
        THEN IF style = "next" THEN Some(nxt)
             ELSE IF style = "next,base" THEN Some(nxt \o <<",", " ">> \o base)
             ELSE Some(base \o <<",", " ">> \o nxt)
        ELSE IF style = "next" THEN None ELSE Some(base)
Served(svc, refs, failed, k) ==
    IF ~IsNone(failed) /\ Val(failed).at = k
    THEN [resp |-> Val(failed).resp, link |-> None]
    ELSE [resp |-> Response(HTTP_OK, TRUE, Some(CursorPage(refs, svc.page_size, k))),
          link |-> LinkHeaderFor(svc.style, k, NumCursorPages(refs, svc.page_size))]
CursorIndex(u) ==
    IF \E k \in DOMAIN CursorNames : u = <<CursorName(k)>>
    THEN CHOOSE k \in DOMAIN CursorNames : u = <<CursorName(k)>>
    ELSE 0

\* The `while url` loop of both listing functions (lines 101-121, 177-195):
\* kind is "ok" with the results collected, "error" where the function
\* returns its empty value, "raise" where an exception leaves it; n counts
\* the requests answered.
RECURSIVE Paginate(_, _, _, _, _, _)
Paginate(svc, refs, failed, u, acc, n) ==
    LET k == CursorIndex(Val(u))
    IN  IF k = 0 \/ k > NumCursorPages(refs, svc.page_size)
        THEN [kind |-> "raise", items |-> << >>, n |-> n]
        ELSE LET r == Served(svc, refs, failed, k)
                 data == handle_json_errors(r.resp)
             IN  IF data.error \/ IsNone(data.data)
                 THEN [kind |-> "error", items |-> << >>, n |-> n + 1]
                 ELSE IF ~Falsy(r.link) /\ LinkParseRaises(Val(r.link))
                 THEN [kind |-> "raise", items |-> << >>, n |-> n + 1]
                 ELSE IF IsNone(NextUrl(r.link))
                 THEN [kind |-> "ok", items |-> acc \o Val(data.data), n |-> n + 1]
                 ELSE Paginate(svc, refs, failed, NextUrl(r.link),
                               acc \o Val(data.data), n + 1)

\* variant: the child's mapping replaces the accumulated one
DictUpdate_replace(d, other) == other
\* dict.update(other)
RECURSIVE DictUpdate(_, _)
DictUpdate(d, other) ==
    IF other = << >> THEN d
    ELSE DictUpdate(DictSet(d, Head(other).k, Head(other).v), Tail(other))

\* What a call returned: raised, or the mapping; fetches lists, per page
\* whose children were requested, the number of requests made for it.
\* unbounded: the calls nested past DepthCap and go on nesting, a request
\* each, until the interpreter's recursion limit raises RecursionError.
Raised(fetches) ==
    [raised |-> TRUE, unbounded |-> FALSE, dict |-> << >>, fetches |-> fetches]
Unbounded(fetches) ==
    [raised |-> TRUE, unbounded |-> TRUE, dict |-> << >>, fetches |-> fetches]
Returned(d, fetches) ==
    [raised |-> FALSE, unbounded |-> FALSE, dict |-> d, fetches |-> fetches]

\* get_confluence_children_by_parent_page_id_recursive(..., page_id), and
\* its closing loop over list(pages_ids_dict.keys()) (lines 124-125).
RECURSIVE get_confluence_children_by_parent_page_id_recursive(_, _, _)
RECURSIVE DescendInto(_, _, _, _, _)
get_confluence_children_by_parent_page_id_recursive(svc, parent_id, depth) ==
    LET failed == IF ~IsNone(svc.fail) /\ Val(svc.fail).page = parent_id
                  THEN svc.fail ELSE None
        got == Paginate(svc, ChildRefs(svc, parent_id), failed,
                        Some(<<CursorName(1)>>), << >>, 0)
        here == <<[page |-> parent_id, n |-> got.n]>>
    IN  IF depth > DepthCap THEN Unbounded(<< >>)
        ELSE IF got.kind = "raise" THEN Raised(here)
        ELSE IF got.kind = "error" THEN Returned(<< >>, here)
        ELSE LET children_dict == BuildPagesDict(got.items, << >>)
                 keys == [j \in DOMAIN children_dict |-> children_dict[j].k]
             IN  DescendInto(svc, keys, children_dict, here, depth)
DescendInto(svc, keys, children_dict, fetches, depth) ==
    IF keys = << >> THEN Returned(children_dict, fetches)
    ELSE LET r == get_confluence_children_by_parent_page_id_recursive(
                      svc, Head(keys), depth + 1)
         IN  IF r.raised THEN [r EXCEPT !.fetches = fetches \o r.fetches]
             ELSE DescendInto(svc, Tail(keys), DictUpdate(children_dict, r.dict),
                              fetches \o r.fetches, depth)

\* get_confluence_pages_by_space_id, and the mapping the space export
\* builds from its result (lines 551-555).
get_confluence_pages_by_space_id(svc) ==
    LET got == Paginate(svc, SpaceRefs(svc), None, Some(<<CursorName(1)>>), << >>, 0)
        here == <<[page |-> "space", n |-> got.n]>>
    IN  IF got.kind = "raise" THEN Raised(here)
        ELSE Returned(BuildPagesDict(got.items, << >>), here)

\* One filesystem download: the status of the response, its body as the
\* chunks iter_content yields, the number of chunks after which the stream
\* breaks (None: it completes), and what the destination path held before
\* (None: no file).
Bodies == {[i \in 1..n |-> "x"] : n \in 0..MaxChunks}
DownloadCalls ==
    {[fn |-> "download_pdf_from_presigned_url", status |-> st, body |-> b,
      breaks |-> k, existing |-> x] :
        st \in DownloadStatuses, b \in Bodies,
        k \in {None} \cup {Some(n) : n \in 0..MaxChunks},
        x \in {None, Some(<<"o">>), Some(<<"x">>)}}

\* variant: the file is opened for appending
download_pdf_from_presigned_url_append(c) ==
    LET old == IF IsNone(c.existing) THEN << >> ELSE Val(c.existing)
    IN  IF c.status # HTTP_OK
        THEN [file |-> c.existing, raised |-> FALSE]
        ELSE IF IsNone(c.breaks) \/ Val(c.breaks) >= Len(c.body)
        THEN [file |-> Some(old \o c.body), raised |-> FALSE]
        ELSE [file |-> Some(old \o SubSeq(c.body, 1, Val(c.breaks))), raised |-> TRUE]
\* download_pdf_from_presigned_url, lines 350-360: what the destination
\* path holds afterwards and whether an exception left the function.
\* open(output_path, 'wb') creates or empties the file; each chunk received
\* is written; a stream that breaks raises out of the loop.
download_pdf_from_presigned_url(c) ==
    IF c.status # HTTP_OK
    THEN [file |-> c.existing, raised |-> FALSE]
    ELSE IF IsNone(c.breaks) \/ Val(c.breaks) >= Len(c.body)
    THEN [file |-> Some(c.body), raised |-> FALSE]
    ELSE [file |-> Some(SubSeq(c.body, 1, Val(c.breaks))), raised |-> TRUE]

\* A space of `others` pages with a parent and one homepage (id 0, parent
\* type null), which the service lists at position `pos`, page_size
\* results to a cursor page.
HomepageCalls ==
    {[fn |-> "get_confluence_homepage_id_by_space_id", others |-> n, pos |-> q,
      page_size |-> z] :
        n \in 0..MaxDescendants, q \in 1..(MaxDescendants + 1), z \in PageSizes}
SpaceListing(c) ==
    [j \in 1..(c.others + 1) |->
        IF j = c.pos THEN [id |-> 0, parentType |-> None]
        ELSE [id |-> IF j < c.pos THEN j ELSE j - 1, parentType |-> Some("page")]]

\* Every integer limit from below -250 to above 250.
LimitInputs == (0 - MaxLimit - 2)..(MaxLimit + 2)
LimitCalls == [fn : {"get_confluence_pages_by_space_id_limit"}, limit : LimitInputs]
Abs(n) == IF n < 0 THEN 0 - n ELSE n
\* limit = abs(limit) if limit <= 250 else 250
LimitParam(limit) == IF limit <= MaxLimit THEN Abs(limit) ELSE MaxLimit

Calls ==
    LimitCalls \cup SanitizeCalls \cup ObjectKeyCalls \cup EnumerateCalls \cup DownloadCalls
    \cup {c \in HomepageCalls : c.pos <= c.others + 1}

InitFn ==
    /\ call \in Calls
    /\ ret = << >>
    /\ pc = "call"
    /\ job = NoJob
    /\ Fresh
    /\ request = None /\ http_status = 0

\* convert_title_to_filename applied to the title, then to its own result
Sanitize ==
    /\ call.fn = "convert_title_to_filename" /\ Len(ret) < 2
    /\ ret' = Append(ret, convert_title_to_filename(
                             IF ret = << >> THEN call.title ELSE ret[Len(ret)],
                             call.max_length))
    /\ UNCHANGED <<job, pc, fault, result, enumVars, loopVars, pageVars, written,
                   request, http_status, call>>

\* The name the bucket sink uploads a page under: file_page_title (line
\* 471) handed to download_pdf_from_presigned_url_to_gcs_bucket, which
\* sanitizes it again and appends '.pdf' (lines 376-378).
ObjectKey ==
    /\ call.fn = "object_key" /\ Len(ret) < 2
    /\ LET n == Len(ret) + 1
       IN  ret' = Append(ret, GcsKey(FilePageTitle(call.titles[n], call.ids[n])))
    /\ UNCHANGED <<job, pc, fault, result, enumVars, loopVars, pageVars, written,
                   request, http_status, call>>

\* The space is enumerated by the flat listing ...
ListSpace ==
    /\ call.fn = "enumerate" /\ Len(ret) = 0
    /\ ret' = <<get_confluence_pages_by_space_id(call.svc)>>
    /\ UNCHANGED <<job, pc, fault, result, enumVars, loopVars, pageVars, written,
                   request, http_status, call>>

\* ... and by the recursive descent from its homepage, page 0.
Descend ==
    /\ call.fn = "enumerate" /\ Len(ret) = 1
    /\ ret' = Append(ret, get_confluence_children_by_parent_page_id_recursive(
                             call.svc, 0, 1))
    /\ UNCHANGED <<job, pc, fault, result, enumVars, loopVars, pageVars, written,
                   request, http_status, call>>

\* One download into the output directory.
DownloadToFile ==
    /\ call.fn = "download_pdf_from_presigned_url" /\ Len(ret) = 0
    /\ ret' = <<download_pdf_from_presigned_url(call)>>
    /\ UNCHANGED <<job, pc, fault, result, enumVars, loopVars, pageVars, written,
                   request, http_status, call>>

\* get_confluence_homepage_id_by_space_id makes one request (line 66) and
\* reads the cursor page it is answered with.
FindHomepage ==
    /\ call.fn = "get_confluence_homepage_id_by_space_id" /\ Len(ret) = 0
    /\ ret' = <<get_confluence_homepage_id_by_space_id(
                  Response(HTTP_OK, TRUE,
                           Some(CursorPage(SpaceListing(call), call.page_size, 1))))>>
    /\ UNCHANGED <<job, pc, fault, result, enumVars, loopVars, pageVars, written,
                   request, http_status, call>>

\* get_confluence_pages_by_space_id_limit: the `limit` parameter it sends
SendLimit ==
    /\ call.fn = "get_confluence_pages_by_space_id_limit" /\ Len(ret) = 0
    /\ ret' = <<LimitParam(call.limit)>>
    /\ UNCHANGED <<job, pc, fault, result, enumVars, loopVars, pageVars, written,
                   request, http_status, call>>

NextFn ==
    \/ SendLimit
    \/ Sanitize \/ ObjectKey \/ ListSpace \/ Descend \/ DownloadToFile
    \/ FindHomepage

SpecFn == InitFn /\ [][NextFn]_vars

\* ----------------------------------------------------- property vocabulary
RECURSIVE CountIn(_, _)
CountIn(q, x) ==
    IF q = << >> THEN 0
    ELSE (IF Head(q) = x THEN 1 ELSE 0) + CountIn(Tail(q), x)

RECURSIVE Concat(_)
Concat(qs) == IF qs = << >> THEN << >> ELSE Head(qs) \o Concat(Tail(qs))

\* how many times id is listed in the result map, over all buckets
RECURSIVE Occurrences(_, _)
Occurrences(status, id) ==
    IF status = << >> THEN 0
    ELSE CountIn(Head(status).v, id) + Occurrences(Tail(status), id)

Terminated == pc \in {"done", "fault"}
PageReturned == ~IsNone(page_status)
AllNon200 == \A i \in DOMAIN statuses : statuses[i] # 200
Some200 == \E i \in DOMAIN statuses : statuses[i] = 200
\* the job's wait value after the zero/absent coercion
InitialWait ==
    IF job.wait_time = None \/ job.wait_time = Some(0) THEN 15 ELSE Val(job.wait_time)
NoExportTraffic ==
    req.trigger = 0 /\ req.link = 0 /\ req.download = 0 /\ sleeps = << >>

\* the service's answer did not yield a space id / a homepage id
ResponseFailed(r) == r.status_code # 200 \/ ~r.is_json \/ IsNone(r.body)
SpaceUnresolved == ~IsNone(spaceResp) /\ ResponseFailed(Val(spaceResp))
HomepageUnresolved ==
    /\ ~IsNone(homeResp)
    /\ \/ ResponseFailed(Val(homeResp))
       \/ \A i \in DOMAIN Val(Val(homeResp).body) :
            ~IsNone(Val(Val(homeResp).body)[i].parentType)

\* ------------------------------------------------------------------ claims

\* C1: in every state of a space job, and in the returned result map, each
\* page id is listed at most once over all outcome buckets, and no outcome
\* label has two buckets; so every id in the result is in exactly one bucket.
C1_OneBucketPerPage ==
    job.mode = "space" =>
        /\ \A id \in Ids : Occurrences(pages_status, id) <= 1
        /\ \A i, j \in DOMAIN pages_status :
            pages_status[i].k = pages_status[j].k => i = j
\* a space job returned a result map holding both pages, in two buckets,
\* after a listing of more entries than pages
C1_Witness ==
    /\ job.mode = "space" /\ pc = "done" /\ result = "pages_status"
    /\ Len(pages_status) = 2
    /\ \A id \in Ids : Occurrences(pages_status, id) = 1
    /\ nListReq = 3

\* C2: once pages are enumerated, a space job ends only after every
\* enumerated page has an outcome in the result map.
C2_EveryPageGetsOutcome ==
    (job.mode = "space" /\ Terminated /\ pages_ids_dict # << >>) =>
        \A i \in DOMAIN pages_ids_dict :
            Occurrences(pages_status, pages_ids_dict[i].k) = 1

\* C3: export_pdf_confluence_page_by_id never ends in an unhandled fault:
\* once entered (page_id bound), it ends by returning one of the three labels.
C3_PageErrorsAbsorbed ==
    /\ (pc = "fault" => page_id = "")
    /\ (PageReturned => Val(page_status) \in Labels)

\* C4: when the content read returns "" or "<p />", the page function
\* returns EMPTY_PAGE with no trigger, link or download request and no sleep.
C4_EmptyPageNoExport ==
    content \in {Some(<< >>), Some(<<"<", "p", " ", "/", ">">>)} =>
        /\ pc \in {"returned", "done"}
        /\ page_status = Some("EMPTY_PAGE")
        /\ NoExportTraffic
\* the content read returned the empty-paragraph marker and the page returned
C4_Witness ==
    /\ content = Some(<<"<", "p", " ", "/", ">">>)
    /\ pc = "returned" /\ page_status = Some("EMPTY_PAGE")

\* C5: when the first download of a page returns 200, the page function
\* returns the label DOWNLOAD_SUCCESSFUL after exactly one trigger and one
\* download request.
C5_FirstAttemptSuccess ==
    (statuses # << >> /\ statuses[1] = 200) =>
        /\ pc \in {"returned", "done"}
        /\ page_status = Some("DOWNLOAD_SUCCESSFUL")
        /\ req.trigger = 1 /\ req.download = 1

\* C6: a non-empty page whose download attempts all return a non-200 status
\* returns DOWNLOAD_FAILED after exactly 3 download attempts; no page ever
\* sees a fourth attempt, and DOWNLOAD_FAILED is returned in no other case.
C6_FailedAfterThree ==
    /\ Len(statuses) <= 3 /\ req.download = Len(statuses) /\ req.trigger <= 3
    /\ (PageReturned /\ Val(page_status) # "EMPTY_PAGE" /\ AllNon200) =>
            /\ page_status = Some("DOWNLOAD_FAILED")
            /\ Len(statuses) = 3 /\ req.trigger = 3
    /\ page_status = Some("DOWNLOAD_FAILED") => (AllNon200 /\ Len(statuses) = 3)
\* three downloads were refused and the page returned DOWNLOAD_FAILED
C6_Witness ==
    /\ pc = "returned" /\ page_status = Some("DOWNLOAD_FAILED")
    /\ statuses = <<404, 404, 404>>

\* C7: the pre-download sleep of attempt k (k in 1..3) lasts
\* initialWait + 10*(k-1) seconds, initialWait being the job's wait value
\* with zero/absent coerced to 15.
C7_PreDownloadWait ==
    \A i \in DOMAIN sleeps :
        sleeps[i].kind = "pre" =>
            /\ sleeps[i].attempt \in 1..3
            /\ sleeps[i].secs = InitialWait + 10 * (sleeps[i].attempt - 1)
\* a third attempt of a job with wait 5 slept 25 seconds, one of a job
\* without a wait value 35 seconds
C7_Witness ==
    \E i \in DOMAIN sleeps :
        /\ sleeps[i].kind = "pre" /\ sleeps[i].attempt = 3
        /\ job.wait_time = None /\ sleeps[i].secs = 35

\* C8: a page's outcome is the success label exactly when one of its (at
\* most 3) download attempts returned 200, and that attempt is the page's
\* last step: nothing is triggered, downloaded or slept after it.
C8_SuccessIffSome200 ==
    /\ Len(statuses) <= 3
    /\ page_status = Some(DOWNLOAD_SUCCESFUL) => Some200
    /\ Some200 =>
        /\ pc \in {"returned", "done"}
        /\ page_status = Some(DOWNLOAD_SUCCESFUL)
        /\ statuses[Len(statuses)] = 200
        /\ \A i \in 1..(Len(statuses) - 1) : statuses[i] # 200
        /\ req.trigger = Len(statuses) /\ req.download = Len(statuses)
        /\ sleeps[Len(sleeps)].kind = "pre"

\* C9: when the space id or the homepage id cannot be resolved, the space
\* job returns no result, and no listing, content, trigger, link or download
\* request is made and nothing is slept or recorded.
C9_AbortOnUnresolvedSpace ==
    (SpaceUnresolved \/ HomepageUnresolved) =>
        /\ pc = "done" /\ result = "None"
        /\ (SpaceUnresolved => IsNone(homeResp))
        /\ nListReq = 0 /\ served = << >> /\ all_pages = << >>
        /\ req = ZeroReq /\ sleeps = << >>
        /\ pages_ids_dict = << >> /\ pages_status = << >> /\ written = << >>
\* the space resolved but its listing holds no page with a null parent type
C9_Witness ==
    /\ ~SpaceUnresolved /\ HomepageUnresolved
    /\ ~ResponseFailed(Val(homeResp)) /\ Val(Val(homeResp).body) # << >>
    /\ pc = "done" /\ result = "None"

\* C10: a chain of n cursor pages, each fetched successfully, is read with
\* exactly n requests and get_confluence_pages_by_space_id returns the
\* concatenation of the pages' results in response order.
C10_PaginationComplete ==
    (~svcError /\ served # << >> /\ pc \in {"listed", "fault"}) =>
        /\ pc = "listed"
        /\ IsNone(svcNext)
        /\ nListReq = Len(served)
        /\ all_pages = Concat(served)

\* No request has left the process: neither resolution request, no listing
\* request and no per-page request.
NoOutboundCall ==
    /\ spaceResp = None /\ homeResp = None /\ nListReq = 0
    /\ req = ZeroReq /\ pages_status = << >>

\* C20: on both endpoints, a body that lacks a required field is answered
\* with the 400 rejection and no request is sent to Confluence or the
\* sink, whatever wait_time and the other optional fields hold or omit.
C20_IncompleteRejected ==
    (~IsNone(request) /\ ~AllRequired(Val(request)) /\ pc # "request")
        => (pc = "rejected" /\ http_status = 400 /\ NoOutboundCall)

\* C14: when the listing request for cursor page k > 1 fails after the
\* pages before it were fetched, get_confluence_pages_by_space_id returns
\* the results of the pages fetched before it, for the job to export.
C14_PartialListingKept ==
    (svcError /\ pc = "listed" /\ Len(served) >= 1) =>
        all_pages = Concat(served)

\* C15: whatever the trigger response, get_pdf_export_confluence_url hands
\* its caller a string or None (the no-result signal), no other kind of
\* value.
C15_UrlOrNoResult ==
    (pc = "pre_sleep") => dl_url.kind \in {"str", "None"}

\* The directory a filesystem job writes under.
OutputDirectory ==
    IF IsNone(job.dest.output_path)
    THEN <<"confluence_downloads">> ELSE Val(job.dest.output_path)

\* C19: with the filesystem sink, a page whose download succeeded was
\* written to <output directory>/<sanitized title>_confluencePageId=<id>.pdf,
\* and the paths written for pages with different ids all differ.
C19_FsNaming ==
    /\ (pc = "returned" /\ page_status = Some(DOWNLOAD_SUCCESFUL)) =>
          /\ written # << >>
          /\ written[Len(written)] =
                OutputDirectory \o <<"/">>
                \o convert_title_to_filename(Val(page_title), MaxFilenameLength)
                \o SuffixChars \o <<page_id>> \o PdfSuffix
    /\ \A i, j \in DOMAIN written : i # j => written[i] # written[j]
\* two pages with the same title and different ids were both written
C19_Witness ==
    /\ pc = "returned" /\ page_status = Some(DOWNLOAD_SUCCESFUL)
    /\ Len(written) = 2 /\ Len(pages_ids_dict) = 2
    /\ pages_ids_dict[1].k # pages_ids_dict[2].k
    /\ pages_ids_dict[1].v = pages_ids_dict[2].v

\* C16: sanitizing a sanitized title changes nothing, for every title and
\* every max_length: convert(convert(x, m), m) = convert(x, m).
C16_SanitizeIdempotent ==
    (call.fn = "convert_title_to_filename" /\ Len(ret) = 2) => ret[2] = ret[1]
\* a title the first application stripped, cleaned, cut and then trimmed of
\* the underscore the cut left at its end
C16_Witness ==
    /\ call.fn = "convert_title_to_filename" /\ Len(ret) = 2
    /\ call.title = <<" ", "a", " ", "!">> /\ call.max_length = 2
    /\ ret[1] = <<"a">>

\* Letters, digits and the underscore.
IsWordChar(c) == c \in {"a", "1", "_"}

\* C17: the result of convert_title_to_filename holds only word characters,
\* does not end in an underscore and is at most max_length long.
C17_SanitizeShape ==
    (call.fn = "convert_title_to_filename") =>
        \A i \in DOMAIN ret :
            /\ \A j \in DOMAIN ret[i] : IsWordChar(ret[i][j])
            /\ (ret[i] # << >> => ret[i][Len(ret[i])] # "_")
            /\ Len(ret[i]) <= call.max_length
\* a title longer than max_length whose cut would end in an underscore
C17_Witness ==
    /\ call.fn = "convert_title_to_filename" /\ Len(ret) >= 1
    /\ call.title = <<"a", "_", "_", "1">> /\ call.max_length = 3
    /\ ret[1] = <<"a">>

\* C18: with the bucket sink, two pages with different ids get different
\* object keys, each ending in its page id (before '.pdf'), whatever their
\* titles: equal titles, titles up to and beyond the longest file name.
C18_ObjectKeyUnique ==
    (call.fn = "object_key" /\ Len(ret) = 2) =>
        /\ ret[1] # ret[2]
        /\ \A n \in 1..2 : EndsWith(ret[n], <<call.ids[n]>> \o PdfSuffix)

\* The pages of the tree, and the entries of a mapping as a set.
TreePages == 0..Len(call.svc.parent)
Entries(d) == {d[i] : i \in DOMAIN d}
EntryOf(i) == [k |-> i, v |-> TitleOf(i)]

\* C11: with every children request succeeding, the recursive descent
\* from the root returns a mapping that holds every page of the tree, the
\* root included, exactly once and with its title.
C11_DescentComplete ==
    (/\ call.fn = "enumerate" /\ Len(ret) = 2
     /\ IsNone(call.svc.fail) /\ IsNone(call.svc.back)) =>
        /\ ~ret[2].raised
        /\ Entries(ret[2].dict) = {EntryOf(i) : i \in TreePages}
        /\ Len(ret[2].dict) = Cardinality(TreePages)

\* C12: with every request succeeding, the mapping built from the flat
\* listing of the space equals the mapping the recursive descent from the
\* homepage returns.
C12_StrategiesAgree ==
    (/\ call.fn = "enumerate" /\ Len(ret) = 2
     /\ IsNone(call.svc.fail) /\ IsNone(call.svc.back)) =>
        /\ ~ret[1].raised /\ ~ret[2].raised
        /\ Entries(ret[1].dict) = Entries(ret[2].dict)

\* Page i lies below page x in the tree.
RECURSIVE IsBelow(_, _, _)
IsBelow(parent, i, x) ==
    i # 0 /\ (parent[i] = x \/ IsBelow(parent, parent[i], x))
\* The failing answer is reached: the children listing of the page has at
\* least that many cursor pages.
FailureHit ==
    /\ ~IsNone(call.svc.fail)
    /\ Val(call.svc.fail).at <=
          NumCursorPages(ChildRefs(call.svc, Val(call.svc.fail).page),
                         call.svc.page_size)

\* C13: when one children request of the descent fails, the mapping the
\* descent returns holds exactly the pages that do not lie below the page
\* whose children were being fetched (its siblings, its ancestors below
\* the root, their other descendants and the page itself), each once with
\* its title, and the children of that page were requested once and no
\* further request followed the failed one.
C13_FailedBranchOnly ==
    (call.fn = "enumerate" /\ Len(ret) = 2 /\ FailureHit /\ ~ret[2].raised) =>
        LET f == Val(call.svc.fail)
            d == ret[2].dict
            fetches == ret[2].fetches
        IN  /\ Entries(d) = {EntryOf(i) :
                    i \in {j \in TreePages \ {0} : ~IsBelow(call.svc.parent, j, f.page)}}
            /\ Len(d) = Cardinality(Entries(d))
            /\ Cardinality({i \in DOMAIN fetches : fetches[i].page = f.page}) = 1
            /\ \A i \in DOMAIN fetches : fetches[i].page = f.page => fetches[i].n = f.at
\* the second children request of a page with a sibling fails, after the
\* first one had listed a child of it
C13_Witness ==
    /\ call.fn = "enumerate" /\ Len(ret) = 2 /\ FailureHit /\ ~ret[2].raised
    /\ Val(call.svc.fail).at = 2 /\ Val(call.svc.fail).page # 0
    /\ \E i \in TreePages : /\ i # Val(call.svc.fail).page
                              /\ DictHas(ret[2].dict, i)
                              /\ call.svc.parent[i] = call.svc.parent[Val(call.svc.fail).page]

\* C21: a complete job posted to either endpoint with wait_time zero or
\* absent is accepted (the engine is called with it), and the first
\* pre-download sleep of every page it exports lasts 15 seconds.
C21_ZeroOrAbsentWait ==
    (/\ ~IsNone(request) /\ pc # "request"
     /\ AllRequired(Val(request))
     /\ FalsyNum(Val(request).fields.wait_time)) =>
        /\ job = Val(request).fields
        /\ \A i \in DOMAIN sleeps :
              (sleeps[i].kind = "pre" /\ sleeps[i].attempt = 1) => sleeps[i].secs = 15

\* The ids listed in the result map, and the ids enumerated.
RecordedIds == UNION {{pages_status[i].v[j] : j \in DOMAIN pages_status[i].v} :
                        i \in DOMAIN pages_status}
EnumeratedIds == {pages_ids_dict[i].k : i \in DOMAIN pages_ids_dict}

\* C22: a space job whose worker keeps running ends, by an exception or by
\* returning; when it returns a result map, the ids over all its buckets
\* are exactly the ids of the enumerated id->title mapping.
C22_SpaceJobCompletes ==
    /\ [](job.mode = "space" /\ pc = "done" /\ result = "pages_status"
            => RecordedIds = EnumeratedIds)
    /\ (job.mode = "space" => <>(pc \in {"done", "fault"}))
\* a space job returned a map holding both enumerated pages in one bucket
C22_Witness ==
    /\ job.mode = "space" /\ pc = "done" /\ result = "pages_status"
    /\ Len(pages_ids_dict) = 2 /\ Len(pages_status) = 1
    /\ RecordedIds = EnumeratedIds

\* C23: within a page, each attempt runs trigger, then the pre-download
\* sleep, then the download: a download is started only right after the
\* sleep of its own attempt, with the value the trigger of that attempt
\* returned, and once it has been made the page has had as many triggers
\* as downloads.
C23_TriggerWaitDownload ==
    /\ req.download <= req.trigger /\ req.trigger <= req.download + 1
    /\ pc = "pre_sleep" =>
          /\ req.trigger = attempt + 1 /\ dl_url.attempt = attempt + 1
    /\ pc = "download" =>
          /\ req.trigger = attempt + 1 /\ req.download = attempt
          /\ dl_url.attempt = attempt + 1
          /\ sleeps # << >>
          /\ sleeps[Len(sleeps)].kind = "pre"
          /\ sleeps[Len(sleeps)].attempt = attempt + 1
    /\ pc \in {"retry_sleep", "returned"} => req.trigger = req.download
\* the third attempt is about to download with the third trigger's value
C23_Witness ==
    /\ pc = "download" /\ attempt = 2 /\ req.trigger = 3 /\ req.download = 2
    /\ dl_url.attempt = 3

\* The ids of the pages the loop has finished with.
IdsBefore(n) == {pages_ids_dict[i].k : i \in 1..(n - 1)}

\* C24: a space job works on one page at a time, in the order of the
\* enumerated mapping: while the requests of page number idx are issued
\* and until its outcome is recorded, the result map holds the outcomes of
\* exactly the pages before it, and every request counted is one for that
\* page.
C24_PagesInSequence ==
    (job.mode = "space" /\ idx >= 1) =>
        /\ idx <= Len(pages_ids_dict)
        /\ page_id = pages_ids_dict[idx].k
        /\ RecordedIds = IF pc = "done" THEN IdsBefore(idx + 1) ELSE IdsBefore(idx)
\* the second page is being downloaded and the first one's outcome is in
\* the result map
C24_Witness ==
    /\ job.mode = "space" /\ idx = 2 /\ pc = "download" /\ req.trigger = 1
    /\ RecordedIds = {pages_ids_dict[1].k}

\* The fixed sleeps made for the current page.
RetrySleeps == {i \in DOMAIN sleeps : sleeps[i].kind = "retry"}

\* C25: the fixed 10-second sleep only separates attempts: a fixed sleep is
\* never the last thing done for a page, and a page that returned
\* DOWNLOAD_FAILED after three attempts has slept it exactly twice.
C25_InterRetrySleep ==
    (PageReturned /\ page_status = Some(DOWNLOAD_FAILED)) =>
        /\ Cardinality(RetrySleeps) = 2
        /\ sleeps[Len(sleeps)].kind # "retry"

\* C26: when the trigger response lacks the taskId or the cloudId, the
\* attempt gets None without a link-resolution request, and the page's
\* export goes on to an outcome label: it does not end in an exception.
C26_MissingTokensNotFatal ==
    (dl_url.kind = "None") =>
        /\ req.link < dl_url.attempt
        /\ pc # "fault"

\* The stream of the download called broke before its last chunk.
StreamBroke ==
    /\ call.status = HTTP_OK /\ ~IsNone(call.breaks)
    /\ Val(call.breaks) < Len(call.body)

\* C27: after a filesystem download, the destination path is as it was
\* before (absent or unchanged) or holds the complete response body, also
\* when the stream broke after some chunks.
C27_NoPartialFile ==
    (call.fn = "download_pdf_from_presigned_url" /\ Len(ret) = 1) =>
        ret[1].file \in {call.existing, Some(call.body)}

\* C27 as the code has it: a response other than 200 leaves the path as it
\* was; a 200 whose stream completes leaves the complete body; a 200 whose
\* stream breaks leaves the chunks received until then, a truncated
\* file (empty if none was received), and the exception leaves the call.
C27_PartialOnlyWhenStreamBreaks ==
    (call.fn = "download_pdf_from_presigned_url" /\ Len(ret) = 1) =>
        /\ call.status # HTTP_OK => (ret[1].file = call.existing /\ ~ret[1].raised)
        /\ (call.status = HTTP_OK /\ ~StreamBroke) =>
              (ret[1].file = Some(call.body) /\ ~ret[1].raised)
        /\ StreamBroke =>
              /\ ret[1].raised
              /\ ret[1].file = Some(SubSeq(call.body, 1, Val(call.breaks)))
\* a stream of two chunks broke after the first, over an existing file
C27_Witness ==
    /\ call.fn = "download_pdf_from_presigned_url" /\ Len(ret) = 1
    /\ StreamBroke /\ Len(call.body) = 2 /\ call.breaks = Some(1)
    /\ call.existing = Some(<<"o">>)
    /\ ret[1].file = Some(<<"x">>)

\* C28: when the space holds a page with a null parent type,
\* get_confluence_homepage_id_by_space_id returns its id, wherever the
\* listing has it: on the first cursor page or on a later one.
C28_HomepageFound ==
    (call.fn = "get_confluence_homepage_id_by_space_id" /\ Len(ret) = 1) =>
        ret[1] = Some(0)

\* C30: whatever integer limit get_confluence_pages_by_space_id_limit is
\* called with, the `limit` parameter it sends lies between 0 and 250.
C30_LimitInRange ==
    (call.fn = "get_confluence_pages_by_space_id_limit" /\ Len(ret) = 1) =>
        (0 <= ret[1] /\ ret[1] <= 250)

\* C29: the recursive descent ends on every finite children relation the
\* service returns, also one in which a page is listed below itself: the
\* nesting of its calls is bounded by the code.
C29_DescentBounded ==
    (call.fn = "enumerate" /\ ~IsNone(call.svc.back) /\ Len(ret) = 2) =>
        ~ret[2].unbounded

\* C31: a download attempt answered with a status other than 200 writes
\* nothing: no file is opened at the output path and nothing is uploaded
\* to the bucket, whichever attempt of the page it is.
C31_Non200WritesNothing ==
    [][(/\ pc = "download" /\ Len(statuses') = Len(statuses) + 1
        /\ statuses'[Len(statuses')] # HTTP_OK) => written' = written]_vars
\* a failed attempt followed by a successful one: one file, written by the
\* second
C31_Witness ==
    /\ Len(statuses) = 2 /\ statuses[1] # HTTP_OK /\ statuses[2] = HTTP_OK
    /\ pc = "returned" /\ Len(written) >= 1

\* C32: the escalation of the wait stays within one page: in a space job
\* the first pre-download sleep of every page lasts the job's initial wait,
\* whatever failed on the pages before it, and the job's wait_time is
\* never changed.
C32_BackoffLocalToPage ==
    [][/\ job'.wait_time = job.wait_time
       /\ (job.mode = "space" /\ pc = "pre_sleep" /\ attempt = 0) =>
              /\ Len(sleeps') = 1
              /\ sleeps'[1].kind = "pre" /\ sleeps'[1].secs = InitialWait]_vars
\* a later page of a space job slept its first 5 seconds after an earlier
\* page had failed three times
C32_Witness ==
    /\ job.mode = "space" /\ job.wait_time = Some(5) /\ idx >= 2
    /\ DictHas(pages_status, DOWNLOAD_FAILED)
    /\ Len(sleeps) = 1 /\ sleeps[1].kind = "pre" /\ sleeps[1].secs = 5

====
